---- MODULE Spec2Model ----
(***************************************************************************)
(* Model of src/manychat_extractor.py: the batch-enrichment pipeline       *)
(* (ManyChatExtractor.process_csv_async and the lookups it dispatches),    *)
(* the checkpoint file it rewrites after every batch, and the sliding      *)
(* window RateLimiter.                                                     *)
(*                                                                         *)
(* The specifications:                                                     *)
(*   Spec         the pipeline: one run, an optional crash of the process  *)
(*                and a second run on the file the first one left;         *)
(*   SpecLookups  one uninterrupted run, against every answer of the API;  *)
(*   SpecLive     the same for one batch, with the fairness of the event   *)
(*                loop (liveness);                                         *)
(*   SpecResumed  a run with resume on the checkpoint of an earlier run,   *)
(*                against every answer of the API;                         *)
(*   SpecLimiter  RateLimiter.acquire against an explicit clock.           *)
(***************************************************************************)
EXTENDS Integers, Sequences, FiniteSets, TLC

\* ------------------------------------------------------------------ bounds
\* Longest input key list explored.
MaxInput == 3
\* Size of a batch. The program uses 10 (line 248); the model is explored
\* with a smaller batch so that several batches fit in MaxInput keys.
batch_size == 2
\* Most 429 answers the API gives in one run (then it stops throttling).
MaxRetries == 1
\* RateLimiter(max_requests=10, time_window=1.0) at line 123, explored with
\* a smaller cap and a window counted in clock ticks.
max_requests == 2
time_window == 2
\* Last clock tick and number of acquire calls explored by SpecLimiter.
MaxClock == 5
MaxCalls == 6

\* ------------------------------------------------------------- raw emails
\* A raw email is the sequence of its characters, so that strip() and
\* lower() are computed rather than assumed.
RawEmails == { <<"a">>, <<" ", "A", " ">>, <<"b">> }

\* Two of them, with different keys.
TwoEmails == { <<" ", "A", " ">>, <<"b">> }

RECURSIVE lstrip(_)
lstrip(s) == IF s # <<>> /\ Head(s) = " " THEN lstrip(Tail(s)) ELSE s

RECURSIVE rstrip(_)
rstrip(s) ==
    IF s # <<>> /\ s[Len(s)] = " " THEN rstrip(SubSeq(s, 1, Len(s) - 1)) ELSE s

strip(s) == rstrip(lstrip(s))

lowerChar(c) == CASE c = "A" -> "a" [] c = "B" -> "b" [] OTHER -> c

lower(s) == [k \in 1..Len(s) |-> lowerChar(s[k])]

\* email.strip().lower() of lines 240-241
normalize(email) == lower(strip(email))

\* ----------------------------------------------------------------- records
None == "None"
NaN == "NaN"

\* ManyChatData with the enriched fields at their defaults (lines 42-47).
\* processed_at is a wall-clock stamp and is not modelled.
ManyChatData(email) ==
    [email |-> email, manychat_id |-> None, shopify_domain |-> None,
     telephone |-> None]

\* One row of DataFrame.to_csv: None and NaN are both written as the empty
\* field (line 204-205).
to_csv_field(v) == IF v \in {None, NaN} THEN "" ELSE v

to_csv_row(d) ==
    [email |-> d.email, manychat_id |-> to_csv_field(d.manychat_id),
     shopify_domain |-> to_csv_field(d.shopify_domain),
     telephone |-> to_csv_field(d.telephone)]

to_csv(data) == [k \in 1..Len(data) |-> to_csv_row(data[k])]

\* pd.read_csv of one row: an empty field is read back as NaN (line 233);
\* ManyChatData(**row) keeps it (line 235).
read_csv_field(s) == IF s = "" THEN NaN ELSE s

read_csv_row(r) ==
    [email |-> r.email, manychat_id |-> read_csv_field(r.manychat_id),
     shopify_domain |-> read_csv_field(r.shopify_domain),
     telephone |-> read_csv_field(r.telephone)]

\* A file: absent, or its header line and rows. header = FALSE with
\* exists = TRUE is the zero-byte file left by open(..., 'w').
NoFile == [exists |-> FALSE, header |-> FALSE, rows |-> <<>>]
Truncated == [exists |-> TRUE, header |-> FALSE, rows |-> <<>>]
\* The file written with the rows of the last batch alone.
WrittenLastBatch(data) ==
    [exists |-> TRUE, header |-> TRUE,
     rows |-> SubSeq(to_csv(data),
                     IF Len(data) > batch_size THEN Len(data) - batch_size + 1 ELSE 1,
                     Len(data))]

Written(data) == [exists |-> TRUE, header |-> TRUE, rows |-> to_csv(data)]

\* ExtractorStats.__init__ (lines 53-61); end_time as "set or not".
ExtractorStats ==
    [total_processed |-> 0, successful |-> 0, failed |-> 0,
     empty_responses |-> 0, rate_limited |-> 0, end_time |-> FALSE,
     errors |-> <<>>]

\* ------------------------------------------------------------ the lookup API
\* What session.get can produce (line 157): a transport error, or a response
\* with an HTTP status.
Answers == {"neterr", "429", "500", "200"}

\* Bodies of a 200 response (line 165): not JSON at all, a matched
\* subscriber, status success with an empty data object, any other status.
BadBody == [json |-> FALSE, status |-> "", id |-> None, custom_fields |-> <<>>]
MatchBody ==
    [json |-> TRUE, status |-> "success", id |-> "id1",
     custom_fields |-> << [name |-> "telephone", value |-> "t1"],
                          [name |-> "shopify_domain", value |-> "d1"],
                          [name |-> "shopify_domain", value |-> "d2"] >>]
NoDataBody ==
    [json |-> TRUE, status |-> "success", id |-> None, custom_fields |-> <<>>]
NoMatchBody ==
    [json |-> TRUE, status |-> "error", id |-> None, custom_fields |-> <<>>]
Bodies == {BadBody, MatchBody, NoDataBody, NoMatchBody}

\* next((field['value'] for field in custom_fields if field['name'] == name),
\* None) of lines 174-177: the first match wins.
RECURSIVE first_value(_, _)
first_value(custom_fields, name) ==
    IF custom_fields = <<>> THEN None
    ELSE IF Head(custom_fields).name = name THEN Head(custom_fields).value
    ELSE first_value(Tail(custom_fields), name)

\* The record built at lines 171-179.
matched_record(email, body) ==
    [email |-> email, manychat_id |-> body.id,
     shopify_domain |-> first_value(body.custom_fields, "shopify_domain"),
     telephone |-> first_value(body.custom_fields, "telephone")]

\* The exception a step of the lookup raises, "" for none: session.get on a
\* transport error (line 157) and raise_for_status on a non-2xx status
\* (line 164) raise subclasses of aiohttp.ClientError, response.json() on a
\* body that is not JSON (line 165) a JSONDecodeError.
raised_by_answer(a) ==
    CASE a = "neterr" -> "ClientError"
      [] a \in {"429", "500"} -> "ClientError"
      [] OTHER -> ""

raised_by_body(b) == IF b.json THEN "" ELSE "JSONDecodeError"

\* The 429 test left out.
never_rate_limited(a) == FALSE

\* response.status == 429 (line 158), tested before raise_for_status
is_rate_limited(a) == a = "429"

\* What a task has seen once the body of a 2xx response is in: that it was
\* not JSON, or the status field of the JSON.
seen_in(b) == IF b.json THEN b.status ELSE "notjson"

\* "except aiohttp.ClientError" in the place of "except Exception".
caught_client_error(exc) == exc = "ClientError"

\* "except Exception" of line 191: every class above derives from Exception.
caught(exc) == exc \in {"ClientError", "JSONDecodeError"}

\* ------------------------------------------------------------------- state
VARIABLES
    input,              \* input_df['email'].tolist(): raw emails
    api,                \* what the lookup API may answer in this behaviour
    resume,             \* the resume argument of the current run
    file,               \* the checkpoint file output_file
    backup,             \* the error_backup_<timestamp>.csv file
    pc,                 \* position of process_csv_async
    results,            \* self.results
    stats,              \* self.stats
    processed_emails,   \* local of process_csv_async (line 231)
    emails_to_process,  \* local of process_csv_async (line 239)
    i,                  \* loop variable of line 259, 0-based
    tasks,              \* the coroutines gathered at line 200
    run,                \* 1: first run, 2: the run after a crash
    prev,               \* history: what the crashed run completed and left
    started,            \* history: emails whose lookup was invoked, in order
    writes,             \* history: this run's record count at each save
    seeded,             \* history: emails loaded from the checkpoint
    results_lock,       \* self.results_lock: Free, or the task holding it
    ended,              \* history: lookups of this run that returned a record
    overtaken,          \* history: a lookup ended before an earlier one of its batch
    mutations,          \* history: shared fields written, under the lock or not
    clock,              \* time.time(), in ticks
    requests,           \* RateLimiter.requests
    rate_lock,          \* RateLimiter.lock: Free, or the task holding it
    returned            \* history: clock at each return from acquire

ledger == <<results_lock, ended, overtaken, mutations>>
pipeline ==
    <<input, api, resume, file, backup, pc, results, stats, processed_emails,
      emails_to_process, i, tasks, run, prev, started, writes, seeded, ledger>>
limiter == <<clock, requests, rate_lock, returned>>
vars == <<pipeline, limiter>>

RECURSIVE SeqsUpTo(_, _)
SeqsUpTo(S, n) ==
    IF n = 0 THEN {<<>>}
    ELSE LET shorter == SeqsUpTo(S, n - 1)
         IN shorter \cup {Append(s, x) : s \in shorter, x \in S}

Min(a, b) == IF a < b THEN a ELSE b

NoPrev == [crashed |-> FALSE, completed |-> <<>>, left |-> <<>>]

\* A threading.Lock that nobody holds (lines 99 and 124).
Free == 0

\* RateLimiter.__init__ (lines 95-99)
InitLimiter ==
    clock = 0 /\ requests = <<>> /\ rate_lock = Free /\ returned = <<>>

\* The answers explored: every one, or (where the crash and the second run
\* are explored too) a reliable transport that answers 200 or fails.
FullApi == [answers |-> Answers, bodies |-> Bodies]
PlainApi == [answers |-> {"200", "neterr"}, bodies |-> {MatchBody}]

\* ManyChatExtractor.__init__ (lines 118-124) and the arguments main() passes
\* to the first run: no output file yet, hence resume = False (lines 325-327).
Start ==
    /\ resume = FALSE
    /\ file = NoFile
    /\ backup = NoFile
    /\ pc = "start"
    /\ results = <<>>
    /\ stats = ExtractorStats
    /\ processed_emails = {}
    /\ emails_to_process = <<>>
    /\ i = 0
    /\ tasks = <<>>
    /\ run = 1
    /\ prev = NoPrev
    /\ started = <<>>
    /\ writes = <<>>
    /\ seeded = <<>>
    /\ results_lock = Free
    /\ ended = 0
    /\ overtaken = FALSE
    /\ mutations = {}
    /\ InitLimiter

\* ------------------------------------------------------------- RateLimiter
\* RateLimiter.acquire (lines 101-115), run under self.lock and without a
\* suspension point, hence one step. time.sleep blocks the only thread, so
\* the clock at the return is the clock at the call plus the time slept.
pruned(reqs, now) == SelectSeq(reqs, LAMBDA req_time : now - req_time <= time_window)

sleep_time(reqs, now) ==
    IF Len(pruned(reqs, now)) >= max_requests
    THEN pruned(reqs, now)[1] + time_window - now
    ELSE 0

\* self.requests after the call made at `now` (lines 106-115)
recorded(reqs, now) ==
    IF Len(pruned(reqs, now)) >= max_requests
    THEN Append(Tail(pruned(reqs, now)), now)
    ELSE Append(pruned(reqs, now), now)

\* The lock held for the whole of a call and never given back.
held_on(holder) == holder

\* The exit of a `with lock:` block (lines 102, 182, 187, 193): the lock is
\* released before control leaves the block.
released(holder) == Free

acquire ==
    LET now == clock
        woke == IF sleep_time(requests, now) > 0
                THEN now + sleep_time(requests, now) ELSE now
    IN /\ rate_lock = Free
       /\ requests' = recorded(requests, now)
       /\ clock' = woke
       /\ returned' = Append(returned, woke)
       /\ rate_lock' = released(rate_lock)

\* ----------------------------------------------------------------- lookups
\* The stats updates of fetch_manychat_data_async.
on_rate_limited_as_failed(st) ==
    [st EXCEPT !.rate_limited = @ + 1, !.failed = @ + 1]
on_rate_limited(st) == [st EXCEPT !.rate_limited = @ + 1]
on_success(st) == [st EXCEPT !.successful = @ + 1]
on_empty_as_success(st) == [st EXCEPT !.successful = @ + 1]
on_empty(st) == [st EXCEPT !.empty_responses = @ + 1]
on_error_unlisted(st, email, exc) == [st EXCEPT !.failed = @ + 1]
on_error(st, email, exc) ==
    [st EXCEPT !.failed = @ + 1, !.errors = Append(@, <<email, exc>>)]

\* A write of a shared field, with whether self.results_lock is held at
\* that moment; `holder` is who holds the lock then.
mutation(field, holder) == [field |-> field, locked |-> holder # Free]

\* Where the program writes shared state. Lines 182-183, 187-188 and 193-195
\* are inside `with self.results_lock:`, entered by the task t that writes;
\* line 160 and lines 263-264 take no lock, so the lock is as it was.
writes_rate_limited == {mutation("rate_limited", results_lock)}
writes_success(t) == {mutation("successful", t)}
writes_empty(t) == {mutation("empty_responses", t)}
writes_error(t) == {mutation("failed", t), mutation("errors", t)}
writes_batch ==
    {mutation("results", results_lock), mutation("total_processed", results_lock)}

\* A task ends with the record it returns; `seen` is what it last received.
finished(task, record, seen) ==
    [task EXCEPT !.pc = "done", !.result = record, !.last = seen]

\* The end of a lookup (lines 182-184, 187-189, 193-196): the counter is
\* updated inside `with self.results_lock`, then the record is returned.
returns(t, muts) ==
    /\ results_lock = Free
    /\ results_lock' = released(t)
    /\ ended' = ended + 1
    /\ overtaken' = (overtaken \/ \E u \in 1..(t - 1) : tasks[u].pc # "done")
    /\ mutations' = mutations \cup muts

\* The handler of line 191 for exception exc raised while task t runs: a
\* caught exception ends the lookup with an empty record; any other leaves
\* the coroutine and reaches gather.
handle_exception(t, exc, seen) ==
    IF caught(exc)
    THEN /\ stats' = on_error(stats, tasks[t].email, exc)
         /\ tasks' = [tasks EXCEPT
                        ![t] = finished(@, ManyChatData(tasks[t].email), seen)]
         /\ returns(t, writes_error(t))
    ELSE /\ stats' = stats
         /\ tasks' = [tasks EXCEPT ![t].pc = "raised", ![t].last = seen]
         /\ UNCHANGED ledger

\* The call of acquire left out.
not_acquired(task) == task

\* self.rate_limiter.acquire() has returned (line 147).
acquired(task) == [task EXCEPT !.acquires = @ + 1]

\* session.get is entered and the request goes out (line 157).
requested(task) == [task EXCEPT !.pc = "request", !.gets = @ + 1]

\* fetch_manychat_data_async up to its first suspension (lines 145-157):
\* acquire, then the request is sent. The coroutines of a batch start in
\* list order; the recursive call of line 162 runs the same code again.
fetch_manychat_data_async(t) ==
    /\ pc = "gather"
    /\ t \in DOMAIN tasks
    /\ \/ /\ tasks[t].pc = "pending"
          /\ \A u \in 1..(t - 1) : tasks[u].pc # "pending"
          /\ started' = Append(started, tasks[t].email)
       \/ /\ tasks[t].pc = "cooldown"
          /\ started' = started
    /\ acquire
    /\ tasks' = [tasks EXCEPT ![t] = requested(acquired(@))]
    /\ UNCHANGED <<input, api, resume, file, backup, pc, results, stats,
                   processed_emails, emails_to_process, i, run, prev, writes,
                   seeded, ledger>>

\* The answer to the request arrives (lines 157-164). No answer is handled
\* before every coroutine of the batch has run to its first suspension.
Response(t, a) ==
    /\ pc = "gather"
    /\ t \in DOMAIN tasks
    /\ tasks[t].pc = "request"
    /\ \A u \in DOMAIN tasks : tasks[u].pc # "pending"
    /\ a \in api.answers
    /\ a = "429" => stats.rate_limited < MaxRetries
    /\ IF is_rate_limited(a)
       THEN /\ stats' = on_rate_limited(stats)
            /\ tasks' = [tasks EXCEPT ![t].pc = "cooldown", ![t].last = a,
                                      ![t].throttled = @ + 1]
            /\ mutations' = mutations \cup writes_rate_limited
            /\ UNCHANGED <<results_lock, ended, overtaken>>
       ELSE IF raised_by_answer(a) # ""
       THEN handle_exception(t, raised_by_answer(a), a)
       ELSE /\ stats' = stats
            /\ tasks' = [tasks EXCEPT ![t].pc = "body"]
            /\ UNCHANGED ledger
    /\ UNCHANGED <<input, api, resume, file, backup, pc, results, processed_emails,
                   emails_to_process, i, run, prev, started, writes, seeded,
                   limiter>>

\* The body of a 2xx response arrives (lines 165-189).
Body(t, b) ==
    /\ pc = "gather"
    /\ t \in DOMAIN tasks
    /\ tasks[t].pc = "body"
    /\ b \in api.bodies
    /\ IF raised_by_body(b) # ""
       THEN handle_exception(t, raised_by_body(b), seen_in(b))
       ELSE IF b.status = "success"
       THEN /\ stats' = on_success(stats)
            /\ tasks' = [tasks EXCEPT
                           ![t] = finished(@, matched_record(tasks[t].email, b),
                                           seen_in(b))]
            /\ returns(t, writes_success(t))
       ELSE /\ stats' = on_empty(stats)
            /\ tasks' = [tasks EXCEPT
                           ![t] = finished(@, ManyChatData(tasks[t].email),
                                           seen_in(b))]
            /\ returns(t, writes_empty(t))
    /\ UNCHANGED <<input, api, resume, file, backup, pc, results, processed_emails,
                   emails_to_process, i, run, prev, started, writes, seeded,
                   limiter>>

\* ---------------------------------------------------------- the batch loop
\* The filter with the membership test made on the raw email.
RECURSIVE to_process_raw_test(_, _)
to_process_raw_test(emails, processed) ==
    IF emails = <<>> THEN <<>>
    ELSE IF Head(emails) \notin processed
    THEN <<normalize(Head(emails))>> \o to_process_raw_test(Tail(emails), processed)
    ELSE to_process_raw_test(Tail(emails), processed)

\* Lines 239-242: the normalized emails that are not in the processed set,
\* in input order.
RECURSIVE to_process(_, _)
to_process(emails, processed) ==
    IF emails = <<>> THEN <<>>
    ELSE IF normalize(Head(emails)) \notin processed
    THEN <<normalize(Head(emails))>> \o to_process(Tail(emails), processed)
    ELSE to_process(Tail(emails), processed)

\* emails_to_process[i:i + batch_size] of line 260 (i is 0-based)
batch_at(emails, k) == SubSeq(emails, k + 1, Min(k + batch_size, Len(emails)))

\* The loop advancing by one email.
next_i_by_one(k) == k + 1

\* The loop variable after a batch: the next value of range(0, total,
\* batch_size) (line 259).
next_i(k) == k + batch_size

\* The total counting every record held, seeded ones included.
count_held(st, batch_results) ==
    [st EXCEPT !.total_processed = Len(results) + Len(batch_results)]

\* The total advancing by one per batch.
count_one(st, batch_results) == [st EXCEPT !.total_processed = @ + 1]

\* self.stats.total_processed += len(batch_results) (line 264)
count_processed(st, batch_results) ==
    [st EXCEPT !.total_processed = @ + Len(batch_results)]

\* No backup file written at all.
not_salvaged(data, old) == old

\* Lines 287-290: the results, if there are any, are written to
\* error_backup_<timestamp>.csv; `old` is what that file held before.
salvaged(data, old) == IF data # <<>> THEN Written(data) ELSE old

\* The except branch of lines 281-292: the end time is set, the results (if
\* any) go to the backup file, the exception leaves process_csv_async.
fatal ==
    /\ stats' = [stats EXCEPT !.end_time = TRUE]
    /\ backup' = salvaged(results, backup)
    /\ pc' = "raised"

\* Lines 209-245. Reading a zero-byte checkpoint raises (pandas'
\* EmptyDataError) inside the try block.
ReadInput ==
    /\ pc = "start"
    /\ IF resume /\ file.exists /\ ~file.header
       THEN /\ fatal
            /\ UNCHANGED <<results, processed_emails, emails_to_process, seeded>>
       ELSE LET existing == IF resume /\ file.exists THEN file.rows ELSE <<>>
                keys == {existing[k].email : k \in DOMAIN existing}
            IN /\ processed_emails' = keys
               /\ results' = [k \in DOMAIN existing |-> read_csv_row(existing[k])]
               /\ seeded' = [k \in DOMAIN existing |-> existing[k].email]
               /\ emails_to_process' = to_process(input, keys)
               /\ pc' = "loop"
               /\ UNCHANGED <<stats, backup>>
    /\ UNCHANGED <<input, api, resume, file, i, tasks, run, prev, started, writes,
                   ledger,
                   limiter>>

\* Lines 259-261 and process_batch_async (lines 198-200): the coroutines of
\* the next batch are created and gathered.
process_batch_async ==
    /\ pc = "loop"
    /\ i < Len(emails_to_process)
    /\ tasks' = [k \in DOMAIN batch_at(emails_to_process, i) |->
                   [email |-> batch_at(emails_to_process, i)[k],
                    pc |-> "pending",
                    result |-> ManyChatData(batch_at(emails_to_process, i)[k]),
                    last |-> "", throttled |-> 0, acquires |-> 0, gets |-> 0]]
    /\ pc' = "gather"
    /\ UNCHANGED <<input, api, resume, file, backup, results, stats,
                   processed_emails, emails_to_process, i, run, prev, started,
                   writes, seeded, ledger,
                   limiter>>

\* gather returning as soon as one coroutine has returned.
first_settled(ts) == \E t \in DOMAIN ts : ts[t].pc = "done"

\* await asyncio.gather(*tasks) (line 200) resumes its caller when every
\* coroutine has returned.
settled(ts) == \A t \in DOMAIN ts : ts[t].pc = "done"

\* The batch results arriving in reverse order.
gather_reversed(ts) == [t \in DOMAIN ts |-> ts[Len(ts) + 1 - t].result]

\* What asyncio.gather returns (line 200): the results in the order of the
\* coroutines passed to it, not in the order of completion.
gather(ts) == [t \in DOMAIN ts |-> ts[t].result]

\* The batch put in front of the results.
extend_front(rs, batch_results) == batch_results \o rs

\* self.results.extend(batch_results) (line 263)
extend(rs, batch_results) == rs \o batch_results

\* gather returns (line 261): with the results in task order once every
\* coroutine has returned, or with the first exception a coroutine raised.
\* Then lines 263-264, and save_progress opens the output file for writing,
\* which empties it (line 205).
GatherReturns ==
    /\ pc = "gather"
    /\ IF \E t \in DOMAIN tasks : tasks[t].pc = "raised"
       THEN /\ fatal
            /\ UNCHANGED <<results, file, tasks, ledger>>
       ELSE /\ settled(tasks)
            /\ LET batch_results == gather(tasks)
               IN /\ results' = extend(results, batch_results)
                  /\ stats' = count_processed(stats, batch_results)
            /\ mutations' = mutations \cup writes_batch
            /\ UNCHANGED <<results_lock, ended, overtaken>>
            /\ file' = Truncated
            /\ tasks' = <<>>
            /\ pc' = "saving"
            /\ backup' = backup
    /\ UNCHANGED <<input, api, resume, processed_emails, emails_to_process, i, run,
                   prev, started, writes, seeded, limiter>>

\* save_progress completes (lines 204-206) and the loop advances (line 259).
save_progress ==
    /\ pc = "saving"
    /\ file' = Written(results)
    /\ writes' = Append(writes, Len(results) - Len(seeded))
    /\ i' = next_i(i)
    /\ pc' = "loop"
    /\ UNCHANGED <<input, api, resume, backup, results, stats, processed_emails,
                   emails_to_process, tasks, run, prev, started, seeded,
                   ledger,
                   limiter>>

\* to_csv raises (the disk is full, say): the file stays as open() left it
\* and the except branch runs.
save_raises ==
    /\ pc = "saving"
    /\ fatal
    /\ UNCHANGED <<input, api, resume, file, results, processed_emails,
                   emails_to_process, i, tasks, run, prev, started, writes,
                   seeded, ledger,
                   limiter>>

\* The loop is over (lines 272-279).
Finish ==
    /\ pc = "loop"
    /\ i >= Len(emails_to_process)
    /\ stats' = [stats EXCEPT !.end_time = TRUE]
    /\ pc' = "done"
    /\ UNCHANGED <<input, api, resume, file, backup, results, processed_emails,
                   emails_to_process, i, tasks, run, prev, started, writes,
                   seeded, ledger,
                   limiter>>

\* ------------------------------------------------------- crash and restart
\* What a file being rewritten holds when the process dies: nothing yet, or
\* the header and some of the rows.
torn(data) ==
    {Truncated} \cup
    {[exists |-> TRUE, header |-> TRUE, rows |-> SubSeq(to_csv(data), 1, k)] :
        k \in 0..(Len(data) - 1)}

\* The process dies during the first run. Its memory is lost; the files stay.
Crash ==
    /\ run = 1
    /\ pc \in {"loop", "gather", "saving"}
    /\ file' \in (IF pc = "saving" THEN torn(results) ELSE {file})
    /\ prev' = [crashed |-> TRUE,
                completed |-> SubSeq(emails_to_process, 1,
                                     Min(i, Len(emails_to_process))),
                left |-> [k \in DOMAIN file'.rows |-> file'.rows[k].email]]
    /\ pc' = "crashed"
    /\ results' = <<>>
    /\ stats' = ExtractorStats
    /\ processed_emails' = {}
    /\ emails_to_process' = <<>>
    /\ i' = 0
    /\ tasks' = <<>>
    /\ started' = <<>>
    /\ writes' = <<>>
    /\ seeded' = <<>>
    /\ results_lock' = Free
    /\ ended' = 0
    /\ overtaken' = FALSE
    /\ mutations' = {}
    /\ clock' = 0 /\ requests' = <<>> /\ rate_lock' = Free /\ returned' = <<>>
    /\ UNCHANGED <<input, api, resume, backup, run>>

\* main() again on the same input (lines 324-330): resume is asked for only
\* if the output file exists.
Restart ==
    /\ pc = "crashed"
    /\ run' = 2
    /\ resume' \in (IF file.exists THEN BOOLEAN ELSE {FALSE})
    /\ pc' = "start"
    /\ UNCHANGED <<input, api, file, backup, results, stats, processed_emails,
                   emails_to_process, i, tasks, prev, started, writes, seeded,
                   ledger,
                   limiter>>

\* ------------------------------------------------------------ specifications
Lookups ==
    \/ \E t \in 1..batch_size : fetch_manychat_data_async(t)
    \/ \E t \in 1..batch_size : \E a \in Answers : Response(t, a)
    \/ \E t \in 1..batch_size : \E b \in Bodies : Body(t, b)

Run ==
    \/ ReadInput
    \/ process_batch_async
    \/ Lookups
    \/ GatherReturns
    \/ save_progress
    \/ save_raises
    \/ Finish

Next == Run \/ Crash \/ Restart

Init == Start /\ input \in SeqsUpTo(RawEmails, MaxInput) /\ api = PlainApi

Spec == Init /\ [][Next]_vars

\* One uninterrupted run against every answer of the API.
InitLookups == Start /\ input \in SeqsUpTo(TwoEmails, MaxInput) /\ api = FullApi

SpecLookups == InitLookups /\ [][Run]_vars

\* The same for the inputs of one batch, with the fairness of the program:
\* the event loop runs every coroutine that can run, every request is
\* answered and the file system completes every write.
InitLive == Start /\ input \in SeqsUpTo(TwoEmails, batch_size) /\ api = FullApi

SpecLive == InitLive /\ [][Run]_vars /\ WF_vars(Run)

\* The records an earlier run left for the first n keys of the work list: a
\* matched subscriber for one key, no data for the next, and so on.
left_by_earlier_run(emails, n) ==
    [k \in 1..n |-> IF k % 2 = 1 THEN matched_record(emails[k], MatchBody)
                                 ELSE ManyChatData(emails[k])]

\* A run with resume on the checkpoint an earlier run of the same input left
\* (lines 324-330), against every answer of the API; one more input key, so
\* that a resumed run has more than one batch left.
InitResumed ==
    /\ input \in SeqsUpTo(TwoEmails, MaxInput + 1)
    /\ api = FullApi
    /\ resume = TRUE
    /\ run = 2
    /\ \E n \in 1..MaxInput :
          /\ n <= Len(input)
          /\ file = Written(left_by_earlier_run(to_process(input, {}), n))
          /\ prev = [crashed |-> TRUE,
                     completed |-> SubSeq(to_process(input, {}), 1, n),
                     left |-> SubSeq(to_process(input, {}), 1, n)]
    /\ backup = NoFile
    /\ pc = "start"
    /\ results = <<>>
    /\ stats = ExtractorStats
    /\ processed_emails = {}
    /\ emails_to_process = <<>>
    /\ i = 0
    /\ tasks = <<>>
    /\ started = <<>>
    /\ writes = <<>>
    /\ seeded = <<>>
    /\ results_lock = Free
    /\ ended = 0
    /\ overtaken = FALSE
    /\ mutations = {}
    /\ InitLimiter

SpecResumed == InitResumed /\ [][Run]_vars

\* RateLimiter alone: callers arrive at any time.
Tick ==
    /\ clock < MaxClock
    /\ clock' = clock + 1
    /\ UNCHANGED <<requests, rate_lock, returned, pipeline>>

Call ==
    /\ Len(returned) < MaxCalls
    /\ acquire
    /\ UNCHANGED pipeline

InitLimiterOnly == Init /\ input = <<>>

NextLimiter == Tick \/ Call

SpecLimiter == InitLimiterOnly /\ [][NextLimiter]_vars

\* ------------------------------------------------------------------ claims
Range(f) == {f[k] : k \in DOMAIN f}

emails_of(data) == [k \in DOMAIN data |-> data[k].email]

Running == pc \notin {"start", "crashed"}

\* C1: a run without resume that completes normally outputs as many records
\* as the input has distinct normalized keys, no key in two records and no
\* key dropped.
C1_OneRecordPerDistinctKey ==
    (pc = "done" /\ ~resume) =>
        /\ Len(results) = Cardinality({normalize(input[k]) : k \in DOMAIN input})
        /\ \A j, k \in DOMAIN results :
              results[j].email = results[k].email => j = k
        /\ \A k \in DOMAIN input : normalize(input[k]) \in Range(emails_of(results))

\* C2: in a run with resume, no lookup is issued for a key that the
\* checkpoint held when the run began.
C2_NoLookupForCheckpointedKey ==
    (resume /\ Running) => Range(started) \cap Range(prev.left) = {}

\* C2 witness: a resumed run has finished; the checkpoint it began with held
\* a key that the input spells differently, and other keys were looked up.
C2_Witness ==
    /\ resume /\ pc = "done"
    /\ started # <<>>
    /\ \E k \in DOMAIN input :
          /\ input[k] # normalize(input[k])
          /\ normalize(input[k]) \in Range(prev.left)

\* The requests issued (returns from acquire) in the window (t - W, t].
issued_in_window(t) ==
    {k \in DOMAIN returned : t - time_window < returned[k] /\ returned[k] <= t}

\* C3: at no instant t have more than max_requests callers returned from
\* acquire within (t - time_window, t].
C3_WindowNeverExceeded ==
    \A t \in Range(returned) : Cardinality(issued_in_window(t)) <= max_requests

\* What a task has last seen when its lookup ended on a failure.
ErrorSeen == {"neterr", "500", "notjson"}

\* Task t's lookup ends in this step.
ends(t) ==
    /\ t \in DOMAIN tasks /\ t \in DOMAIN tasks'
    /\ tasks[t].pc # "done" /\ tasks'[t].pc = "done"

\* C4 (safety part): the failed counter and the error list change only in a
\* step in which a lookup ends on a failure it received, never on a 429 or
\* on the answer that follows the 429s.
C4_FailedOnlyOnError ==
    (stats'.failed # stats.failed \/ stats'.errors # stats.errors) =>
        \E t \in DOMAIN tasks : ends(t) /\ tasks'[t].last \in ErrorSeen

terminal_in_flight == Cardinality({t \in DOMAIN tasks : tasks[t].pc = "done"})

outcomes == stats.successful + stats.failed + stats.empty_responses

\* C5 as claimed: successful + failed + empty_responses = total_processed in
\* every reachable state.
C5_StatsAlways == outcomes = stats.total_processed

\* C5 as amended: the sum exceeds total_processed by the number of lookups of
\* the batch in flight that have ended, hence equals it between batches.
C5_StatsUpToBatchInFlight ==
    /\ outcomes = stats.total_processed + terminal_in_flight
    /\ pc \in {"start", "loop", "saving", "done"} => outcomes = stats.total_processed

\* C5 witness: a later batch is in flight, an earlier batch has been counted
\* and a lookup of the batch in flight has ended, so the sum is ahead.
C5_Witness ==
    /\ pc = "gather" /\ stats.total_processed > 0
    /\ terminal_in_flight > 0
    /\ outcomes = stats.total_processed + terminal_in_flight

\* C6: once batch k is saved, the checkpoint holds the keys the run began
\* with followed by the keys of batches 1..k of the work list, and no other.
C6_CheckpointHoldsProcessedKeys ==
    (pc \in {"loop", "gather", "done"} /\ writes # <<>>) =>
        /\ file.exists /\ file.header
        /\ emails_of(file.rows) =
              (IF resume THEN prev.left ELSE <<>>) \o
              SubSeq(emails_to_process, 1,
                     Min(Len(writes) * batch_size, Len(emails_to_process)))

\* C6 witness: a resumed run that began with a non-empty checkpoint has saved
\* a batch.
C6_Witness ==
    /\ resume /\ prev.left # <<>> /\ pc = "loop" /\ Len(writes) = 1

\* C7: at a crash the checkpoint holds the record of every key of a completed
\* batch, and a resumed run issues no lookup for such a key.
C7_CrashLosesAtMostOneBatch ==
    /\ pc = "crashed" =>
          Range(prev.completed) \subseteq Range(emails_of(file.rows))
    /\ (run = 2 /\ resume /\ Running) =>
          Range(started) \cap Range(prev.completed) = {}

CeilDiv(n, d) == (n + d - 1) \div d

\* C8: a run that completes normally has written ceil(N / batch_size)
\* checkpoints, the k-th with min(k * batch_size, N) records of this run, and
\* the lookups were started in work-list order, a batch after the save of
\* the batch before.
C8_WritesPerBatch ==
    Running =>
        /\ \A k \in DOMAIN writes :
              writes[k] = Min(k * batch_size, Len(emails_to_process))
        /\ Len(started) <= Len(emails_to_process)
        /\ started = SubSeq(emails_to_process, 1, Len(started))
        /\ Len(started) <= (Len(writes) + 1) * batch_size
        /\ pc = "done" =>
              Len(writes) = CeilDiv(Len(emails_to_process), batch_size)

\* C8 witness: a run of more keys than one batch, the last batch partial, is
\* complete.
C8_Witness ==
    /\ pc = "done" /\ Len(writes) > 1
    /\ Len(emails_to_process) % batch_size # 0

\* C9: no lookup raises: one that ends on a failure returns the empty record
\* of its key, and a run that is over has a record for every key of its work
\* list unless saving failed.
C9_LookupNeverRaises ==
    /\ \A t \in DOMAIN tasks :
          /\ tasks[t].pc # "raised"
          /\ (tasks[t].pc = "done" /\ tasks[t].last \in ErrorSeen) =>
                tasks[t].result = ManyChatData(tasks[t].email)
    /\ pc = "raised" => (tasks = <<>> /\ file = Truncated)
    /\ pc = "done" => emails_of(results) = emails_to_process

\* C9 witness: a batch is complete in which one lookup failed on a body that
\* is not JSON and another succeeded.
C9_Witness ==
    /\ pc = "gather" /\ terminal_in_flight = Len(tasks)
    /\ \E t, u \in DOMAIN tasks :
          tasks[t].last = "notjson" /\ tasks[u].last = "success"

C11_ErrorStep ==
    \A t \in DOMAIN tasks :
        (ends(t) /\ tasks'[t].last \in ErrorSeen) =>
            /\ tasks'[t].result = ManyChatData(tasks[t].email)
            /\ stats'.failed = stats.failed + 1
            /\ Len(stats'.errors) = Len(stats.errors) + 1
            /\ SubSeq(stats'.errors, 1, Len(stats.errors)) = stats.errors
            /\ stats'.errors[Len(stats'.errors)][1] = tasks[t].email
            /\ stats'.successful = stats.successful
            /\ stats'.empty_responses = stats.empty_responses

\* C11: every lookup that ends on an error is recorded as in C11_ErrorStep,
\* and the error list is as long as the failed counter in every state.
C11_ErrorRecorded ==
    /\ [](Len(stats.errors) = stats.failed)
    /\ [][C11_ErrorStep]_vars

\* C11 witness: of two lookups one ended on a transport error, recorded once
\* with its key, and the other succeeded.
C11_Witness ==
    \E t, u \in DOMAIN tasks :
        /\ tasks[t].pc = "done" /\ tasks[t].last = "neterr"
        /\ tasks[u].pc = "done" /\ tasks[u].last = "success"
        /\ stats.failed = 1 /\ stats.successful = 1
        /\ stats.errors = << <<tasks[t].email, "ClientError">> >>

C13_StartStep ==
    started' # started =>
        /\ pc = "gather"
        /\ i <= Len(started) /\ Len(started) < i + batch_size
        /\ started' = Append(started, emails_to_process[Len(started) + 1])
        /\ ended - terminal_in_flight = i
        /\ Len(results) = Len(seeded) + i
        /\ Len(writes) * batch_size = i
        /\ i > 0 => file = Written(results)

\* C13: batches never overlap: lookups start as in C13_StartStep, and the
\* lookups in flight are those of one batch of the work list.
C13_BatchesNeverOverlap ==
    /\ [][C13_StartStep]_vars
    /\ [](pc = "gather" =>
            [t \in DOMAIN tasks |-> tasks[t].email] =
                SubSeq(emails_to_process, i + 1,
                       Min(i + batch_size, Len(emails_to_process))))

\* C13 witness: a lookup of the second batch has started after a batch in
\* which a lookup was throttled and retried, and that batch is on disk.
C13_Witness ==
    /\ pc = "gather" /\ i > 0 /\ Len(started) > i
    /\ stats.rate_limited > 0 /\ ended = i
    /\ file = Written(results)

\* C14 (one step): the step that ends a lookup adds 1 to exactly one of
\* successful, failed, empty_responses and leaves rate_limited; a step that
\* ends no lookup leaves the three; rate_limited grows by 1 exactly in the
\* step in which a lookup receives a 429.
C14_CountStep ==
    LET ending == {t \in DOMAIN tasks : ends(t)}
        cooled == {t \in DOMAIN tasks :
                      t \in DOMAIN tasks' /\ tasks'[t].pc = "cooldown"
                                          /\ tasks[t].pc # "cooldown"}
    IN /\ ending # {} =>
             /\ Cardinality(ending) = 1
             /\ outcomes' = outcomes + 1
             /\ stats'.successful \in {stats.successful, stats.successful + 1}
             /\ stats'.failed \in {stats.failed, stats.failed + 1}
             /\ stats'.empty_responses \in
                    {stats.empty_responses, stats.empty_responses + 1}
             /\ stats'.rate_limited = stats.rate_limited
       /\ ending = {} =>
             /\ stats'.successful = stats.successful
             /\ stats'.failed = stats.failed
             /\ stats'.empty_responses = stats.empty_responses
       /\ stats'.rate_limited =
             stats.rate_limited + (IF cooled # {} THEN 1 ELSE 0)

\* C14: counters move as in C14_CountStep; as many lookups have returned a
\* record as the three counters count, and a run that is over has one record
\* and one count for every entry of its work list.
C14_OneOutcomePerEntry ==
    /\ [][C14_CountStep]_vars
    /\ [](ended = outcomes)
    /\ [](pc = "done" =>
            /\ outcomes = Len(emails_to_process)
            /\ Len(results) = Len(seeded) + Len(emails_to_process))

\* C14 witness: a run is over in which a lookup was throttled and retried,
\* and lookups ended in each of the three outcomes.
C14_Witness ==
    /\ pc = "done" /\ stats.rate_limited > 0
    /\ stats.successful > 0 /\ stats.failed > 0 /\ stats.empty_responses > 0
    /\ outcomes = Len(emails_to_process)

\* C15: every write of the counters, of the error list and of the result
\* set made so far in the run was made with the results lock held.
C15_MutationsUnderLock == \A m \in mutations : m.locked

\* The calls of acquire that have returned in this run, counted from what the
\* lookups did: one per lookup started and one more per 429 already retried.
attempts_made ==
    Len(started) + stats.rate_limited
        - Cardinality({t \in DOMAIN tasks : tasks[t].pc = "cooldown"})

\* C16 (one step): a request goes out for a key only in a step in which a
\* call of acquire for that key has returned.
C16_RequestStep ==
    \A t \in DOMAIN tasks :
        (pc' = "gather" /\ t \in DOMAIN tasks' /\ tasks'[t].gets > tasks[t].gets) =>
            /\ tasks'[t].gets = tasks[t].gets + 1
            /\ tasks'[t].acquires = tasks[t].acquires + 1
            /\ Len(returned') = Len(returned) + 1

\* C16: every request of a lookup, the first and each retry after a 429, is
\* preceded by its own call of acquire: per key the calls of acquire are
\* never fewer than the requests, a key answered n 429s was requested n
\* times (and once more when retried), and the limiter has returned once per
\* request of the run.
C16_AcquireBeforeEveryRequest ==
    /\ [][C16_RequestStep]_vars
    /\ [](\A t \in DOMAIN tasks :
            /\ tasks[t].acquires >= tasks[t].gets
            /\ tasks[t].gets = tasks[t].throttled +
                  (IF tasks[t].pc \in {"pending", "cooldown"} THEN 0 ELSE 1))
    /\ [](Len(returned) = attempts_made)

\* C16 witness: a lookup was answered 429, retried and ended, with two
\* requests and two calls of acquire.
C16_Witness ==
    \E t \in DOMAIN tasks :
        /\ tasks[t].pc = "done" /\ tasks[t].throttled = 1
        /\ tasks[t].gets = 2 /\ tasks[t].acquires = 2

IsPrefix(a, b) == Len(a) <= Len(b) /\ SubSeq(b, 1, Len(a)) = a

\* C17 (one step): when a checkpoint of this run is about to be rewritten,
\* the rows it holds are the first rows of what is written in its place.
C17_RewriteStep ==
    (pc = "gather" /\ pc' = "saving" /\ writes # <<>>) =>
        /\ file.header
        /\ IsPrefix(file.rows, to_csv(results'))
        /\ Len(file.rows) < Len(results')

C18_ExtendStep ==
    (pc = "gather" /\ pc' = "saving") =>
        /\ Len(results') = Len(seeded) + i + Len(tasks)
        /\ SubSeq(results', 1, Len(results)) = results
        /\ \A t \in DOMAIN tasks :
              /\ results'[Len(seeded) + i + t] = tasks[t].result
              /\ results'[Len(seeded) + i + t].email = emails_to_process[i + t]

\* C18: the order of the records depends on the input alone: results are
\* extended as in C18_ExtendStep, the seeded records come first in the order
\* the checkpoint stored them, and every checkpoint of the run holds the
\* stored keys followed by the keys of the work list in work-list order.
C18_OrderFromInputAlone ==
    /\ [][C18_ExtendStep]_vars
    /\ [](pc \in {"loop", "gather", "saving", "done"} =>
            /\ seeded = prev.left
            /\ emails_of(SubSeq(results, 1, Len(seeded))) = seeded)
    /\ [](pc \in {"loop", "gather", "done"} /\ writes # <<>> =>
            emails_of(file.rows) =
                seeded \o SubSeq(emails_to_process, 1,
                                 Min(i, Len(emails_to_process))))

\* C18 witness: a resumed run has saved a batch in which a later lookup
\* ended before an earlier one and a lookup was throttled and retried; the
\* two records, of different content, are on disk behind the seeded ones.
C18_Witness ==
    /\ pc = "loop" /\ writes # <<>> /\ seeded # <<>>
    /\ overtaken /\ stats.rate_limited > 0
    /\ file = Written(results)
    /\ Len(results) >= Len(seeded) + 2
    /\ results[Len(seeded) + 1] # results[Len(seeded) + 2]

\* The lookups that are suspended: at the network call (the request or the
\* body of its response) or in the cooldown sleep.
suspended == {t \in DOMAIN tasks : tasks[t].pc \in {"request", "body", "cooldown"}}

\* C19: whenever control is back with the event loop, and so whenever a
\* lookup is suspended, the rate limiter lock and the results lock are free;
\* no step of a lookup is ever blocked on a lock; and a batch in flight
\* always completes, the API answering 429 at most MaxRetries times.
C19_NoLockHeldWhileSuspended ==
    /\ [](rate_lock = Free /\ results_lock = Free)
    /\ [](suspended # {} => (rate_lock = Free /\ results_lock = Free))
    /\ (pc = "gather") ~> (pc # "gather")

\* C19 witness: one lookup of a batch is in its cooldown sleep while another
\* has updated its counter under the results lock and returned; both locks
\* are free.
C19_Witness ==
    /\ rate_lock = Free /\ results_lock = Free
    /\ \E t, u \in DOMAIN tasks :
          /\ tasks[t].pc = "cooldown"
          /\ tasks[u].pc = "done"
          /\ [field |-> "successful", locked |-> TRUE] \in mutations

\* C20 (one step): loading the checkpoint changes no counter and adds no
\* error.
C20_SeedStep ==
    pc = "start" =>
        /\ stats'.total_processed = stats.total_processed
        /\ stats'.successful = stats.successful
        /\ stats'.failed = stats.failed
        /\ stats'.empty_responses = stats.empty_responses
        /\ stats'.rate_limited = stats.rate_limited
        /\ stats'.errors = stats.errors

\* C20: at every batch boundary total_processed is the number of records in
\* memory less the number seeded from the checkpoint, that is the number of
\* work-list entries whose batch is complete; seeding changes no counter.
C20_TotalCountsThisRunOnly ==
    /\ [][C20_SeedStep]_vars
    /\ [](pc \in {"loop", "saving", "done"} =>
            /\ stats.total_processed = Len(results) - Len(seeded)
            /\ stats.total_processed <= Len(emails_to_process))
    /\ [](pc = "loop" /\ i = 0 => stats.total_processed = 0)

\* C20 witness: a resumed run that seeded records from the checkpoint is
\* over and has counted the lookups it made itself.
C20_Witness ==
    /\ resume /\ seeded # <<>> /\ pc = "done"
    /\ stats.total_processed > 0
    /\ stats.total_processed = Len(emails_to_process)
    /\ Len(results) = Len(seeded) + Len(emails_to_process)

====
